---- MODULE Spec2Model ----
(***************************************************************************)
(* Bot container orchestration of NexusControl-Backend.                    *)
(*                                                                         *)
(* The lifecycle controller (bots.service: createBot, startBot, stopBot,   *)
(* restartBot, deleteBot) is modelled as a set of concurrent request       *)
(* handlers.  Every `await` of a handler is one atomic step: the database  *)
(* or engine operation it awaits takes effect, then the handler runs on to *)
(* its next await (or returns).  The persistence layer (prisma) and the    *)
(* container engine (dockerode) are modelled by what the handlers rely on: *)
(* a write to a missing row rejects, the engine answers 404 for a missing  *)
(* container, 304 for a stop or start that changes nothing and 409 for a   *)
(* container name already in use.  The parameter `ok` of a step is FALSE   *)
(* when the awaited operation fails for a reason outside the model (lost   *)
(* connection, engine error, registry unreachable).                        *)
(***************************************************************************)
EXTENDS Integers, Sequences, FiniteSets

\* ------------------------------------------------------------------ bounds
MaxOps == 3         \* lifecycle calls accepted in one run
MaxFaults == 2      \* awaited operations that fail for an outside reason in one run

Null == 0           \* a NULL containerId column / a null result

\* One bot and two request handlers: the handlers of different bots share no
\* row, no container and no container name, and the properties about
\* concurrency are about two calls on one bot.
BotIds == {1}
Calls == {1, 2}

VARIABLES
  bots,           \* table Bot: id -> [status, containerId, lastStartedAt, lastStoppedAt]
  nextBot,        \* bot ids allotted so far
  history,        \* table BotStatusHistory: bot id -> sequence of rows (status)
  dirs,           \* bot ids whose code directory exists on disk
  containers,     \* engine: container id -> [name, state]
  nextCid,        \* container ids allotted so far
  image,          \* engine: the runtime image is present locally
  notifications,  \* triggerWebhooks calls made, in order: <<event, bot id>>
  pc,             \* per handler: the await it is suspended at
  op,             \* per handler: the service function it runs
  id,             \* per handler: the `id` argument
  bot,            \* per handler: the record loaded by findUnique (`bot`)
  containerId,    \* per handler: startBot's `containerId` constant
  error,          \* per handler: the error caught by the try block
  last,           \* the call that returned last: [op, id, outcome]
  invoked,        \* lifecycle calls accepted so far
  faults,         \* awaited operations that failed for an outside reason so far
  overlapped      \* a call was accepted while another call was in flight

dbVars == <<bots, nextBot, history, dirs>>
engineVars == <<containers, nextCid, image>>
callVars == <<pc, op, id, bot, containerId, error, last, invoked, overlapped>>
vars == <<bots, nextBot, history, dirs, containers, nextCid, image,
          notifications, pc, op, id, bot, containerId, error, last, invoked,
          faults, overlapped>>

\* The gateway's log subscriptions
VARIABLES
  streams,              \* calls of streamContainerLogs, in order: the closure's state
  activeSubscriptions,  \* socket id -> (bot id -> index of the stream whose cancel it holds)
  pending,              \* per bot: 'subscribe:logs' handlers awaiting findUnique
  requests              \* 'subscribe:logs' events received so far

logVars == <<streams, activeSubscriptions, pending, requests>>

\* The 'data' handler of one log stream
VARIABLES
  chunks,     \* the raw chunks the stream emits, in order (text, as toString gives it)
  read,       \* chunks the 'data' handler has processed
  delivered   \* arguments of the onLog calls made, in order

decodeVars == <<chunks, read, delivered>>

\* The Runtime Client (docker.service) called on its own
VARIABLES
  calls       \* the calls made, in order: [fn, cid, ok, before, threw, status]

clientVars == <<calls>>

\* The reconciler (recordBotStats on statsInterval)
VARIABLES
  sweep,      \* the sweep in progress: [pc, runningBots, stats] and what it did so far
  ticks       \* ticks of statsInterval so far

statVars == <<sweep, ticks>>

\* The Runtime Client's computations: one engine sample and the usage returned
\* for it; one host, one path and its successive translations.
VARIABLES
  cpu_stats,    \* the deltas and online_cpus of the sample container.stats gave
  returned,     \* the cpuUsage values getContainerStats returned, in hundredths
  host,         \* isWindows and the drive of the process's working directory
  windowsPath,  \* the host path handed to convertToDockerPath
  converted     \* the results of applying convertToDockerPath again and again

calcVars == <<cpu_stats, returned, host, windowsPath, converted>>

\* What each part of the system leaves alone.
notLifecycle == <<logVars, decodeVars, clientVars, statVars, calcVars>>
notLogs == <<vars, decodeVars, clientVars, statVars, calcVars>>
notDecode == <<vars, logVars, clientVars, statVars, calcVars>>
notClient == <<dbVars, nextCid, image, notifications, callVars, faults,
               logVars, decodeVars, statVars, calcVars>>
notStats == <<bots, nextBot, dirs, engineVars, notifications, callVars, faults,
              logVars, decodeVars, clientVars, calcVars>>

NoBot == [status |-> "none", containerId |-> Null]

\* ----------------------------------------------------------- persistence
Exists(b) == b \in DOMAIN bots

NewBotRow ==
  [status |-> "STOPPED", containerId |-> Null,
   lastStartedAt |-> FALSE, lastStoppedAt |-> FALSE]

\* prisma.bot.update rejects when the row is missing or the database fails.
CanUpdate(b, ok) == ok /\ Exists(b)

updateBotStatus(b, status) == [bots EXCEPT ![b].status = status]

\* getBot: the record, or the error 'Bot not found'.
getBot(b) == IF Exists(b) THEN "ok" ELSE "NotFound"

\* ---------------------------------------------------------------- engine
ContainerExists(cid) == cid \in DOMAIN containers

NameInUse(name) == \E x \in DOMAIN containers : containers[x].name = name

Without(cs, cid) == [x \in (DOMAIN cs) \ {cid} |-> cs[x]]

\* A removeContainer that throws the engine's 404 like any other error.
removeContainer_Throws404(cid, ok) ==
  IF ~ok \/ cid \notin DOMAIN containers THEN [threw |-> TRUE, cs |-> containers]
  ELSE [threw |-> FALSE, cs |-> [x \in (DOMAIN containers) \ {cid} |-> containers[x]]]

\* removeContainer: 404 (already absent) is absorbed, anything else is thrown.
removeContainer(cid, ok) ==
  IF ~ok THEN [threw |-> TRUE, cs |-> containers]
  ELSE [threw |-> FALSE, cs |-> Without(containers, cid)]

\* stopContainer: 304 (not running) is absorbed; 404 and other errors are thrown.
stopContainer(cid, ok) ==
  IF ~ok \/ ~ContainerExists(cid) THEN [threw |-> TRUE, cs |-> containers]
  ELSE IF containers[cid].state # "running" THEN [threw |-> FALSE, cs |-> containers]
  ELSE [threw |-> FALSE, cs |-> [containers EXCEPT ![cid].state = "exited"]]

\* startContainer: every engine error is thrown (404, 304 already started, 500).
startContainer(cid, ok) ==
  IF ~ok \/ ~ContainerExists(cid) THEN [threw |-> TRUE, cs |-> containers]
  ELSE IF containers[cid].state = "running" THEN [threw |-> TRUE, cs |-> containers]
  ELSE [threw |-> FALSE, cs |-> [containers EXCEPT ![cid].state = "running"]]

\* restartContainer: every engine error is thrown.
restartContainer(cid, ok) ==
  IF ~ok \/ ~ContainerExists(cid) THEN [threw |-> TRUE, cs |-> containers]
  ELSE [threw |-> FALSE, cs |-> [containers EXCEPT ![cid].state = "running"]]

\* getContainerStatus: the engine's State.Status, 'unknown' on 404, other errors
\* are thrown.
getContainerStatus(cid, ok) ==
  IF ~ok THEN [threw |-> TRUE, cs |-> containers, status |-> "none"]
  ELSE [threw |-> FALSE, cs |-> containers,
        status |-> IF ContainerExists(cid) THEN containers[cid].state ELSE "unknown"]

\* docker.createContainer({name: bot.containerName, ...}): the engine refuses a
\* name that is in use (409); otherwise a container with a fresh id, not started.
dockerCreate(name, ok) ==
  IF ~ok \/ NameInUse(name) THEN [threw |-> TRUE, cs |-> containers, cid |-> Null]
  ELSE [threw |-> FALSE,
        cs |-> [x \in (DOMAIN containers) \cup {nextCid + 1} |->
                  IF x = nextCid + 1 THEN [name |-> name, state |-> "created"]
                  ELSE containers[x]],
        cid |-> nextCid + 1]

\* ------------------------------------------------------------- handlers
Idle(c) == pc[c] = "idle"

InFlight(c) == pc[c] # "idle"

\* The awaited operation of a step ran: ok = FALSE is a failure from outside.
Await(ok) ==
  /\ ok \/ faults < MaxFaults
  /\ faults' = IF ok THEN faults ELSE faults + 1

\* A call is accepted by the first free handler.
Accept(c) ==
  /\ Idle(c)
  /\ \A d \in Calls : d < c => ~Idle(d)
  /\ invoked < MaxOps
  /\ invoked' = invoked + 1
  /\ overlapped' = (overlapped \/ \E d \in Calls : InFlight(d))

\* The call is rejected in the step that accepted it: it raises `out`.
Reject(f, b, out) ==
  /\ last' = [op |-> f, id |-> b, outcome |-> out]
  /\ UNCHANGED <<pc, op, id, bot, containerId, error>>

\* The record loaded by findUnique passed the checks: on to the next await.
Loaded(c, f, b, label) ==
  /\ pc' = [pc EXCEPT ![c] = label]
  /\ op' = [op EXCEPT ![c] = f]
  /\ id' = [id EXCEPT ![c] = b]
  /\ bot' = [bot EXCEPT ![c] =
               [status |-> bots[b].status, containerId |-> bots[b].containerId]]
  /\ UNCHANGED <<containerId, error, last>>

\* The handler returns (out = "ok") or raises (out = the error).
Return(c, out) ==
  /\ pc' = [pc EXCEPT ![c] = "idle"]
  /\ last' = [op |-> op[c], id |-> id[c], outcome |-> out]
  /\ op' = [op EXCEPT ![c] = "none"]
  /\ id' = [id EXCEPT ![c] = 1]
  /\ bot' = [bot EXCEPT ![c] = NoBot]
  /\ containerId' = [containerId EXCEPT ![c] = Null]
  /\ error' = [error EXCEPT ![c] = "none"]

\* The handler suspends at its next await.
Goto(c, label) ==
  /\ pc' = [pc EXCEPT ![c] = label]
  /\ UNCHANGED <<op, id, bot, containerId, error, last>>

\* The try block caught `e`: on to the catch clause.
Throw(c, e) ==
  /\ pc' = [pc EXCEPT ![c] = "catch"]
  /\ error' = [error EXCEPT ![c] = e]
  /\ UNCHANGED <<op, id, bot, containerId, last>>

triggerWebhooks(event, b) == notifications' = Append(notifications, <<event, b>>)

\* ------------------------------------------------------------ createBot
createBot ==
  /\ nextBot < Cardinality(BotIds)
  /\ nextBot' = nextBot + 1
  /\ bots' = [b \in (DOMAIN bots) \cup {nextBot + 1} |->
                IF b = nextBot + 1 THEN NewBotRow ELSE bots[b]]
  /\ dirs' = dirs \cup {nextBot + 1}
  /\ triggerWebhooks("BOT_CREATED", nextBot + 1)
  /\ UNCHANGED <<history, containers, nextCid, image,
                 pc, op, id, bot, containerId, error, last, invoked, faults, overlapped>>
  /\ UNCHANGED notLifecycle

\* ------------------------------------------------------------- startBot
\* A startBot that starts whatever the status.
startBot_check_NoRunningTest(b) ==
  IF ~Exists(b) THEN "NotFound" ELSE "none"

\* if (!bot) throw 'Bot not found'; if (bot.status === 'RUNNING') throw 'Bot is
\* already running'
startBot_check(b) ==
  IF ~Exists(b) THEN "NotFound"
  ELSE IF bots[b].status = "RUNNING" THEN "AlreadyRunning"
  ELSE "none"

\* findUnique, then the two rejections.
startBot_findUnique(c, b, ok) ==
  /\ Accept(c)
  /\ Await(ok)
  /\ IF ~ok THEN Reject("start", b, "PersistenceError")
     ELSE IF startBot_check(b) # "none" THEN Reject("start", b, startBot_check(b))
     ELSE Loaded(c, "start", b, "setStatus")
  /\ UNCHANGED <<dbVars, engineVars, notifications>>
  /\ UNCHANGED notLifecycle

\* await updateBotStatus(id, 'STARTING'): before the try block, so a rejection
\* is raised as it is.
startBot_setStarting(c, ok) ==
  /\ pc[c] = "setStatus" /\ op[c] = "start"
  /\ Await(ok)
  /\ IF CanUpdate(id[c], ok)
     THEN /\ bots' = updateBotStatus(id[c], "STARTING")
          /\ Goto(c, IF bot[c].containerId # Null THEN "removeOld" ELSE "pull")
     ELSE /\ UNCHANGED bots
          /\ Return(c, "PersistenceError")
  /\ UNCHANGED <<nextBot, history, dirs, engineVars, notifications,
                 invoked, overlapped>>
  /\ UNCHANGED notLifecycle

\* if (bot.containerId) await dockerService.removeContainer(bot.containerId)
startBot_removeOld(c, ok) ==
  /\ pc[c] = "removeOld" /\ op[c] = "start"
  /\ Await(ok)
  /\ LET r == removeContainer(bot[c].containerId, ok) IN
       /\ containers' = r.cs
       /\ IF r.threw THEN Throw(c, "RuntimeError") ELSE Goto(c, "pull")
  /\ UNCHANGED <<dbVars, nextCid, image, notifications, invoked, overlapped>>
  /\ UNCHANGED notLifecycle

\* createContainer, first await: pullImageIfNeeded(image)
pullImageIfNeeded(c, ok) ==
  /\ pc[c] = "pull" /\ op[c] = "start"
  /\ Await(ok)
  /\ IF ok
     THEN /\ image' = TRUE
          /\ Goto(c, "create")
     ELSE /\ UNCHANGED image
          /\ Throw(c, IF image THEN "RuntimeError" ELSE "ImagePullError")
  /\ UNCHANGED <<dbVars, containers, nextCid, notifications,
                 invoked, overlapped>>
  /\ UNCHANGED notLifecycle

\* createContainer, second await: docker.createContainer(...); returns container.id
createContainer(c, ok) ==
  /\ pc[c] = "create" /\ op[c] = "start"
  /\ Await(ok)
  /\ LET r == dockerCreate(id[c], ok) IN
       /\ containers' = r.cs
       /\ IF r.threw
          THEN /\ Throw(c, "RuntimeError")
               /\ UNCHANGED nextCid
          ELSE /\ nextCid' = r.cid
               /\ containerId' = [containerId EXCEPT ![c] = r.cid]
               /\ pc' = [pc EXCEPT ![c] = "start"]
               /\ UNCHANGED <<op, id, bot, error, last>>
  /\ UNCHANGED <<dbVars, image, notifications, invoked, overlapped>>
  /\ UNCHANGED notLifecycle

\* await dockerService.startContainer(containerId)
startBot_startContainer(c, ok) ==
  /\ pc[c] = "start" /\ op[c] = "start"
  /\ Await(ok)
  /\ LET r == startContainer(containerId[c], ok) IN
       /\ containers' = r.cs
       /\ IF r.threw THEN Throw(c, "RuntimeError") ELSE Goto(c, "persist")
  /\ UNCHANGED <<dbVars, nextCid, image, notifications, invoked, overlapped>>
  /\ UNCHANGED notLifecycle

\* A startBot that forgets the lastStartedAt stamp.
startBot_data_NoStamp(row, cid) ==
  [row EXCEPT !.containerId = cid, !.status = "RUNNING"]

\* data: { containerId, status: 'RUNNING', lastStartedAt: new Date() }
startBot_data(row, cid) ==
  [row EXCEPT !.containerId = cid, !.status = "RUNNING", !.lastStartedAt = TRUE]

\* prisma.bot.update with that data
startBot_update(c, ok) ==
  /\ pc[c] = "persist" /\ op[c] = "start"
  /\ Await(ok)
  /\ IF CanUpdate(id[c], ok)
     THEN /\ bots' = [bots EXCEPT ![id[c]] = startBot_data(@, containerId[c])]
          /\ Goto(c, "history")
     ELSE /\ UNCHANGED bots
          /\ Throw(c, "PersistenceError")
  /\ UNCHANGED <<nextBot, history, dirs, engineVars, notifications,
                 invoked, overlapped>>
  /\ UNCHANGED notLifecycle

\* recordStatusHistory(id, 'RUNNING'), then the BOT_STARTED webhook and return
startBot_recordStatusHistory(c, ok) ==
  /\ pc[c] = "history" /\ op[c] = "start"
  /\ Await(ok)
  /\ IF CanUpdate(id[c], ok)
     THEN /\ history' = [history EXCEPT ![id[c]] = Append(@, "RUNNING")]
          /\ triggerWebhooks("BOT_STARTED", id[c])
          /\ Return(c, "ok")
     ELSE /\ UNCHANGED <<history, notifications>>
          /\ Throw(c, "PersistenceError")
  /\ UNCHANGED <<bots, nextBot, dirs, engineVars, invoked, overlapped>>
  /\ UNCHANGED notLifecycle

\* A catch clause that issues no webhook.
startBot_errorWebhook_None(b) == UNCHANGED notifications

\* triggerWebhooks('BOT_ERROR', ...) of startBot's catch clause
startBot_errorWebhook(b) == triggerWebhooks("BOT_ERROR", b)

\* catch: await updateBotStatus(id, 'ERROR'), the BOT_ERROR webhook, throw error.
\* A rejection of the update leaves the catch clause at once.
startBot_catch(c, ok) ==
  /\ pc[c] = "catch" /\ op[c] = "start"
  /\ Await(ok)
  /\ IF CanUpdate(id[c], ok)
     THEN /\ bots' = updateBotStatus(id[c], "ERROR")
          /\ startBot_errorWebhook(id[c])
          /\ Return(c, error[c])
     ELSE /\ UNCHANGED <<bots, notifications>>
          /\ Return(c, "PersistenceError")
  /\ UNCHANGED <<nextBot, history, dirs, engineVars, invoked, overlapped>>
  /\ UNCHANGED notLifecycle

startBot(c, ok) ==
  \/ \E b \in BotIds : startBot_findUnique(c, b, ok)
  \/ startBot_setStarting(c, ok)
  \/ startBot_removeOld(c, ok)
  \/ pullImageIfNeeded(c, ok)
  \/ createContainer(c, ok)
  \/ startBot_startContainer(c, ok)
  \/ startBot_update(c, ok)
  \/ startBot_recordStatusHistory(c, ok)
  \/ startBot_catch(c, ok)

\* --------------------------------------------------------------- stopBot
\* A stopBot that goes on without a container.
stopBot_check_NoContainerTest(b) ==
  IF ~Exists(b) THEN "NotFound" ELSE "none"

\* if (!bot) throw 'Bot not found'; if (!bot.containerId) throw 'Bot has no
\* container'
stopBot_check(b) ==
  IF ~Exists(b) THEN "NotFound"
  ELSE IF bots[b].containerId = Null THEN "NoContainer"
  ELSE "none"

\* findUnique, then the two rejections.
stopBot_findUnique(c, b, ok) ==
  /\ Accept(c)
  /\ Await(ok)
  /\ IF ~ok THEN Reject("stop", b, "PersistenceError")
     ELSE IF stopBot_check(b) # "none" THEN Reject("stop", b, stopBot_check(b))
     ELSE Loaded(c, "stop", b, "setStatus")
  /\ UNCHANGED <<dbVars, engineVars, notifications>>
  /\ UNCHANGED notLifecycle

\* await updateBotStatus(id, 'STOPPING'): before the try block.
stopBot_setStopping(c, ok) ==
  /\ pc[c] = "setStatus" /\ op[c] = "stop"
  /\ Await(ok)
  /\ IF CanUpdate(id[c], ok)
     THEN /\ bots' = updateBotStatus(id[c], "STOPPING")
          /\ Goto(c, "engine")
     ELSE /\ UNCHANGED bots
          /\ Return(c, "PersistenceError")
  /\ UNCHANGED <<nextBot, history, dirs, engineVars, notifications,
                 invoked, overlapped>>
  /\ UNCHANGED notLifecycle

\* await dockerService.stopContainer(bot.containerId)
stopBot_stopContainer(c, ok) ==
  /\ pc[c] = "engine" /\ op[c] = "stop"
  /\ Await(ok)
  /\ LET r == stopContainer(bot[c].containerId, ok) IN
       /\ containers' = r.cs
       /\ IF r.threw THEN Throw(c, "RuntimeError") ELSE Goto(c, "persist")
  /\ UNCHANGED <<dbVars, nextCid, image, notifications, invoked, overlapped>>
  /\ UNCHANGED notLifecycle

\* A stopBot that forgets the lastStoppedAt stamp.
stopBot_data_NoStamp(row) == [row EXCEPT !.status = "STOPPED"]

\* data: { status: 'STOPPED', lastStoppedAt: new Date() }
stopBot_data(row) == [row EXCEPT !.status = "STOPPED", !.lastStoppedAt = TRUE]

\* prisma.bot.update with that data
stopBot_update(c, ok) ==
  /\ pc[c] = "persist" /\ op[c] = "stop"
  /\ Await(ok)
  /\ IF CanUpdate(id[c], ok)
     THEN /\ bots' = [bots EXCEPT ![id[c]] = stopBot_data(@)]
          /\ Goto(c, "history")
     ELSE /\ UNCHANGED bots
          /\ Throw(c, "PersistenceError")
  /\ UNCHANGED <<nextBot, history, dirs, engineVars, notifications,
                 invoked, overlapped>>
  /\ UNCHANGED notLifecycle

\* recordStatusHistory(id, 'STOPPED'), then the BOT_STOPPED webhook and return
stopBot_recordStatusHistory(c, ok) ==
  /\ pc[c] = "history" /\ op[c] = "stop"
  /\ Await(ok)
  /\ IF CanUpdate(id[c], ok)
     THEN /\ history' = [history EXCEPT ![id[c]] = Append(@, "STOPPED")]
          /\ triggerWebhooks("BOT_STOPPED", id[c])
          /\ Return(c, "ok")
     ELSE /\ UNCHANGED <<history, notifications>>
          /\ Throw(c, "PersistenceError")
  /\ UNCHANGED <<bots, nextBot, dirs, engineVars, invoked, overlapped>>
  /\ UNCHANGED notLifecycle

\* catch: await updateBotStatus(id, 'ERROR'), the BOT_ERROR webhook, throw error.
stopBot_catch(c, ok) ==
  /\ pc[c] = "catch" /\ op[c] = "stop"
  /\ Await(ok)
  /\ IF CanUpdate(id[c], ok)
     THEN /\ bots' = updateBotStatus(id[c], "ERROR")
          /\ triggerWebhooks("BOT_ERROR", id[c])
          /\ Return(c, error[c])
     ELSE /\ UNCHANGED <<bots, notifications>>
          /\ Return(c, "PersistenceError")
  /\ UNCHANGED <<nextBot, history, dirs, engineVars, invoked, overlapped>>
  /\ UNCHANGED notLifecycle

stopBot(c, ok) ==
  \/ \E b \in BotIds : stopBot_findUnique(c, b, ok)
  \/ stopBot_setStopping(c, ok)
  \/ stopBot_stopContainer(c, ok)
  \/ stopBot_update(c, ok)
  \/ stopBot_recordStatusHistory(c, ok)
  \/ stopBot_catch(c, ok)

\* ------------------------------------------------------------ restartBot
\* if (!bot) throw 'Bot not found'; if (!bot.containerId) throw 'Bot has no
\* container'
restartBot_check(b) ==
  IF ~Exists(b) THEN "NotFound"
  ELSE IF bots[b].containerId = Null THEN "NoContainer"
  ELSE "none"

\* findUnique, then the two rejections.
restartBot_findUnique(c, b, ok) ==
  /\ Accept(c)
  /\ Await(ok)
  /\ IF ~ok THEN Reject("restart", b, "PersistenceError")
     ELSE IF restartBot_check(b) # "none" THEN Reject("restart", b, restartBot_check(b))
     ELSE Loaded(c, "restart", b, "setStatus")
  /\ UNCHANGED <<dbVars, engineVars, notifications>>
  /\ UNCHANGED notLifecycle

\* await updateBotStatus(id, 'RESTARTING'): before the try block.
restartBot_setRestarting(c, ok) ==
  /\ pc[c] = "setStatus" /\ op[c] = "restart"
  /\ Await(ok)
  /\ IF CanUpdate(id[c], ok)
     THEN /\ bots' = updateBotStatus(id[c], "RESTARTING")
          /\ Goto(c, "engine")
     ELSE /\ UNCHANGED bots
          /\ Return(c, "PersistenceError")
  /\ UNCHANGED <<nextBot, history, dirs, engineVars, notifications,
                 invoked, overlapped>>
  /\ UNCHANGED notLifecycle

\* await dockerService.restartContainer(bot.containerId)
restartBot_restartContainer(c, ok) ==
  /\ pc[c] = "engine" /\ op[c] = "restart"
  /\ Await(ok)
  /\ LET r == restartContainer(bot[c].containerId, ok) IN
       /\ containers' = r.cs
       /\ IF r.threw THEN Throw(c, "RuntimeError") ELSE Goto(c, "persist")
  /\ UNCHANGED <<dbVars, nextCid, image, notifications, invoked, overlapped>>
  /\ UNCHANGED notLifecycle

\* data: { status: 'RUNNING', lastStartedAt: new Date() }
restartBot_data(row) == [row EXCEPT !.status = "RUNNING", !.lastStartedAt = TRUE]

\* prisma.bot.update with that data
restartBot_update(c, ok) ==
  /\ pc[c] = "persist" /\ op[c] = "restart"
  /\ Await(ok)
  /\ IF CanUpdate(id[c], ok)
     THEN /\ bots' = [bots EXCEPT ![id[c]] = restartBot_data(@)]
          /\ Goto(c, "history")
     ELSE /\ UNCHANGED bots
          /\ Throw(c, "PersistenceError")
  /\ UNCHANGED <<nextBot, history, dirs, engineVars, notifications,
                 invoked, overlapped>>
  /\ UNCHANGED notLifecycle

\* recordStatusHistory(id, 'RUNNING'), then the BOT_RESTARTED webhook and return
restartBot_recordStatusHistory(c, ok) ==
  /\ pc[c] = "history" /\ op[c] = "restart"
  /\ Await(ok)
  /\ IF CanUpdate(id[c], ok)
     THEN /\ history' = [history EXCEPT ![id[c]] = Append(@, "RUNNING")]
          /\ triggerWebhooks("BOT_RESTARTED", id[c])
          /\ Return(c, "ok")
     ELSE /\ UNCHANGED <<history, notifications>>
          /\ Throw(c, "PersistenceError")
  /\ UNCHANGED <<bots, nextBot, dirs, engineVars, invoked, overlapped>>
  /\ UNCHANGED notLifecycle

\* catch: await updateBotStatus(id, 'ERROR'), the BOT_ERROR webhook, throw error.
restartBot_catch(c, ok) ==
  /\ pc[c] = "catch" /\ op[c] = "restart"
  /\ Await(ok)
  /\ IF CanUpdate(id[c], ok)
     THEN /\ bots' = updateBotStatus(id[c], "ERROR")
          /\ triggerWebhooks("BOT_ERROR", id[c])
          /\ Return(c, error[c])
     ELSE /\ UNCHANGED <<bots, notifications>>
          /\ Return(c, "PersistenceError")
  /\ UNCHANGED <<nextBot, history, dirs, engineVars, invoked, overlapped>>
  /\ UNCHANGED notLifecycle

restartBot(c, ok) ==
  \/ \E b \in BotIds : restartBot_findUnique(c, b, ok)
  \/ restartBot_setRestarting(c, ok)
  \/ restartBot_restartContainer(c, ok)
  \/ restartBot_update(c, ok)
  \/ restartBot_recordStatusHistory(c, ok)
  \/ restartBot_catch(c, ok)

\* ------------------------------------------------------------ deleteBot
\* findUnique, then the rejection 'Bot not found'.
deleteBot_findUnique(c, b, ok) ==
  /\ Accept(c)
  /\ Await(ok)
  /\ IF ~ok THEN Reject("delete", b, "PersistenceError")
     ELSE IF ~Exists(b) THEN Reject("delete", b, "NotFound")
     ELSE Loaded(c, "delete", b, IF bots[b].containerId # Null THEN "engine" ELSE "rmDir")
  /\ UNCHANGED <<dbVars, engineVars, notifications>>
  /\ UNCHANGED notLifecycle

\* try { await dockerService.removeContainer(bot.containerId) } catch { warn }
deleteBot_removeContainer(c, ok) ==
  /\ pc[c] = "engine" /\ op[c] = "delete"
  /\ Await(ok)
  /\ containers' = removeContainer(bot[c].containerId, ok).cs
  /\ Goto(c, "rmDir")
  /\ UNCHANGED <<dbVars, nextCid, image, notifications, invoked, overlapped>>
  /\ UNCHANGED notLifecycle

\* A catch clause that raises the failure of fs.rm to the caller.
deleteBot_rmCaught_Rethrow(c) == Return(c, "RuntimeError")

\* catch (error) { logger.warn(...) } around fs.rm: on to prisma.bot.delete
deleteBot_rmCaught(c) == Goto(c, "persist")

\* try { await fs.rm(bot.codeDirectory, {recursive, force}) } catch { warn }
deleteBot_rm(c, ok) ==
  /\ pc[c] = "rmDir" /\ op[c] = "delete"
  /\ Await(ok)
  /\ IF ok THEN dirs' = dirs \ {id[c]} /\ Goto(c, "persist")
     ELSE dirs' = dirs /\ deleteBot_rmCaught(c)
  /\ UNCHANGED <<bots, nextBot, history, engineVars, notifications,
                 invoked, overlapped>>
  /\ UNCHANGED notLifecycle

\* await prisma.bot.delete (the history rows go with the row: ON DELETE CASCADE),
\* then the BOT_DELETED webhook and return
deleteBot_delete(c, ok) ==
  /\ pc[c] = "persist" /\ op[c] = "delete"
  /\ Await(ok)
  /\ IF CanUpdate(id[c], ok)
     THEN /\ bots' = Without(bots, id[c])
          /\ history' = [history EXCEPT ![id[c]] = <<>>]
          /\ triggerWebhooks("BOT_DELETED", id[c])
          /\ Return(c, "ok")
     ELSE /\ UNCHANGED <<bots, history, notifications>>
          /\ Return(c, "PersistenceError")
  /\ UNCHANGED <<nextBot, dirs, engineVars, invoked, overlapped>>
  /\ UNCHANGED notLifecycle

deleteBot(c, ok) ==
  \/ \E b \in BotIds : deleteBot_findUnique(c, b, ok)
  \/ deleteBot_removeContainer(c, ok)
  \/ deleteBot_rm(c, ok)
  \/ deleteBot_delete(c, ok)

\* ------------------------------------------------------------ vocabulary
\* Handler c returns or raises in this step, having got past findUnique.
Returns(c) == pc[c] # "idle" /\ pc'[c] = "idle"

\* A call of `f` on bot b is rejected in the step that accepted it.
Rejected(f, b) ==
  /\ invoked' = invoked + 1
  /\ pc' = pc
  /\ last'.op = f /\ last'.id = b

\* Handler c has made a status write or an engine call and has not returned.
Begun(c) ==
  \/ op[c] \in {"start", "stop", "restart"} /\ pc[c] \notin {"idle", "setStatus"}
  \/ op[c] = "delete" /\ pc[c] = "persist"
  \/ op[c] = "delete" /\ pc[c] = "rmDir" /\ bot[c].containerId # Null

\* The run so far took one call at a time and nothing failed outside.
Plain == faults = 0 /\ ~overlapped

Transient == {"STARTING", "STOPPING", "RESTARTING"}

\* ------------------------------------------------------------------ C1
\* C1: at most one lifecycle operation is in flight per bot: two handlers
\* working on the same bot id have never both begun their status writes or
\* engine calls.
C1_OneOperationPerBot ==
  \A c, d \in Calls :
    (c # d /\ Begun(c) /\ Begun(d)) => id[c] # id[d]

\* ------------------------------------------------------------------ C2
\* C2: of two concurrent start calls on one bot, with nothing failing outside,
\* the engine never holds two containers of the bot, and a start that returns
\* while the other start is in flight succeeded or raised AlreadyRunning, the
\* latter without changing the bot.
C2_ConcurrentStart ==
  [][/\ \A x, y \in DOMAIN containers' :
          x # y => containers'[x].name # containers'[y].name
     /\ \A c, d \in Calls :
          (/\ c # d /\ faults' = 0
           /\ op[c] = "start" /\ op[d] = "start" /\ id[c] = id[d]
           /\ Returns(c))
          => /\ last'.outcome \in {"ok", "AlreadyRunning"}
             /\ last'.outcome = "AlreadyRunning" => bots' = bots]_vars

\* ------------------------------------------------------------------ C3
\* C3: in a run of one call at a time, when a start call that has written
\* STARTING returns or raises, whatever failed in it, the bot's persisted status is RUNNING or ERROR.
C3_StartEndsRunningOrError ==
  [][\A c \in Calls :
       (Returns(c) /\ op[c] = "start" /\ ~overlapped /\ pc[c] # "setStatus")
       => bots'[id[c]].status \in {"RUNNING", "ERROR"}]_vars

\* ------------------------------------------------------------------ C4
\* C4: in a run of one call at a time, when a stop call that has written
\* STOPPING returns or raises, whatever failed in it, the bot's persisted status is STOPPED or ERROR.
C4_StopEndsStoppedOrError ==
  [][\A c \in Calls :
       (Returns(c) /\ op[c] = "stop" /\ ~overlapped /\ pc[c] # "setStatus")
       => bots'[id[c]].status \in {"STOPPED", "ERROR"}]_vars

\* ------------------------------------------------------------------ C5
\* C5: in a run of one call at a time, when a start, stop or restart call that
\* has written its transient status raises, the bot's persisted status is ERROR at that moment.
C5_FailureLeavesError ==
  [][\A c \in Calls :
       (/\ Returns(c) /\ op[c] \in {"start", "stop", "restart"}
        /\ pc[c] # "setStatus" /\ ~overlapped
        /\ last'.outcome # "ok")
       => bots'[id[c]].status = "ERROR"]_vars

\* ------------------------------------------------------------------ C6
\* C6 as stated: in a run of one call at a time with nothing failing outside, a bot's containerId is non-null
\* only while its status is STARTING, RUNNING, STOPPING or RESTARTING, or ERROR
\* with the container still in the engine; a STOPPED bot has containerId null.
C6_ContainerIdOnlyWhileActive ==
  \A b \in DOMAIN bots :
    (Plain /\ bots[b].containerId # Null)
    => \/ bots[b].status \in {"STARTING", "RUNNING", "STOPPING", "RESTARTING"}
       \/ bots[b].status = "ERROR" /\ ContainerExists(bots[b].containerId)

\* C6 as amended: containerId is non-null only once a start call has created,
\* started and persisted a container (lastStartedAt is set and the id is one
\* the engine allotted); a STOPPED bot with a containerId has been stopped
\* (lastStoppedAt is set) and keeps the id of its container.
C6_ContainerIdOnlyAfterStart ==
  \A b \in DOMAIN bots :
    bots[b].containerId # Null
    => /\ bots[b].lastStartedAt
       /\ bots[b].containerId \in 1..nextCid
       /\ bots[b].status = "STOPPED" => bots[b].lastStoppedAt

\* A stop call has returned: the bot is STOPPED and still names its container,
\* which the engine still holds, stopped.
C6_Witness ==
  \E b \in DOMAIN bots :
    /\ last = [op |-> "stop", id |-> b, outcome |-> "ok"]
    /\ bots[b].status = "STOPPED"
    /\ bots[b].containerId # Null
    /\ ContainerExists(bots[b].containerId)
    /\ containers[bots[b].containerId].state = "exited"

\* ------------------------------------------------------------------ C7
\* Handler c writes the transient status `t` of its call in this step.
WritesTransient(c, f, t) ==
  /\ op[c] = f /\ pc[c] = "setStatus" /\ pc'[c] # "idle"
  /\ Exists(id[c])' /\ bots'[id[c]].status = t

\* C7 as stated: in a run of one call at a time with nothing failing outside, a call moves the
\* bot to STARTING only from STOPPED or ERROR, and to STOPPING or RESTARTING
\* only from RUNNING.
C7_TransitionTable ==
  [][\A c \in Calls :
       Plain'
       => /\ WritesTransient(c, "start", "STARTING")
               => bots[id[c]].status \in {"STOPPED", "ERROR"}
          /\ WritesTransient(c, "stop", "STOPPING")
               => bots[id[c]].status = "RUNNING"
          /\ WritesTransient(c, "restart", "RESTARTING")
               => bots[id[c]].status = "RUNNING"]_vars

\* C7 as amended: every change of a bot's status to a transient status is the
\* first write of a call whose loaded record passed that call's own test: to
\* STARTING by a start that loaded a status other than RUNNING, to STOPPING by
\* a stop and to RESTARTING by a restart that loaded a non-null containerId.
C7_TransitionGuards ==
  [][\A b \in (DOMAIN bots) \cap (DOMAIN bots') :
       (bots'[b].status # bots[b].status /\ bots'[b].status \in Transient)
       => \E c \in Calls :
            /\ id[c] = b
            /\ \/ /\ WritesTransient(c, "start", "STARTING")
                  /\ bot[c].status # "RUNNING"
               \/ /\ WritesTransient(c, "stop", "STOPPING")
                  /\ bot[c].containerId # Null
               \/ /\ WritesTransient(c, "restart", "RESTARTING")
                  /\ bot[c].containerId # Null]_vars

\* A stop call has moved a bot it loaded as STOPPED to STOPPING.
C7_Witness ==
  \E c \in Calls :
    /\ op[c] = "stop" /\ pc[c] = "engine"
    /\ bot[c].status = "STOPPED" /\ bot[c].containerId # Null
    /\ Exists(id[c]) /\ bots[id[c]].status = "STOPPING"

\* ------------------------------------------------------------------ C8
Events(b) == SelectSeq(notifications, LAMBDA n : n[2] = b)

\* C8: in a run of one call at a time with nothing failing outside, no call
\* raises anything but a rejection, and for a bot created, started, stopped and
\* deleted in that order: after the start the status is RUNNING, containerId is
\* the id of the container just created (which runs), lastStartedAt is set and
\* the history holds exactly one row, RUNNING; after the stop the status is
\* STOPPED and lastStoppedAt is set; after the delete getBot raises NotFound.
C8_StartStopDelete ==
  \A b \in BotIds :
    (Plain /\ \A c \in Calls : Idle(c))
    => /\ last.outcome \in {"none", "ok", "NotFound", "AlreadyRunning", "NoContainer"}
       /\ Events(b) = <<<<"BOT_CREATED", b>>, <<"BOT_STARTED", b>>>>
            => /\ getBot(b) = "ok"
               /\ bots[b].status = "RUNNING"
               /\ bots[b].containerId = nextCid /\ nextCid # Null
               /\ ContainerExists(nextCid)
               /\ containers[nextCid] = [name |-> b, state |-> "running"]
               /\ bots[b].lastStartedAt
               /\ history[b] = <<"RUNNING">>
       /\ Events(b) = <<<<"BOT_CREATED", b>>, <<"BOT_STARTED", b>>,
                        <<"BOT_STOPPED", b>>>>
            => /\ getBot(b) = "ok"
               /\ bots[b].status = "STOPPED"
               /\ bots[b].lastStoppedAt
       /\ Events(b) = <<<<"BOT_CREATED", b>>, <<"BOT_STARTED", b>>,
                        <<"BOT_STOPPED", b>>, <<"BOT_DELETED", b>>>>
            => getBot(b) = "NotFound"

\* The whole scenario has run: create, start, stop, delete, each returning ok.
C8_Witness ==
  /\ Plain /\ \A c \in Calls : Idle(c)
  /\ last = [op |-> "delete", id |-> 1, outcome |-> "ok"]
  /\ Events(1) = <<<<"BOT_CREATED", 1>>, <<"BOT_STARTED", 1>>,
                   <<"BOT_STOPPED", 1>>, <<"BOT_DELETED", 1>>>>

\* ------------------------------------------------------------------ C9
\* C9: in a run of one call at a time, when a start call that loaded a null
\* containerId has its image pull fail and the catch clause's own write does
\* not fail: the call raises the pull's error, the status is ERROR, containerId
\* is still null, the call created no container and the engine holds none of
\* the bot, and one BOT_ERROR notification is issued.
C9_ImagePullFails ==
  [][\A c \in Calls :
       (/\ Returns(c) /\ op[c] = "start" /\ error[c] = "ImagePullError"
        /\ bot[c].containerId = Null
        /\ ~overlapped /\ faults' = faults)
       => /\ last' = [op |-> "start", id |-> id[c], outcome |-> "ImagePullError"]
          /\ Exists(id[c])'
          /\ bots'[id[c]].status = "ERROR"
          /\ bots'[id[c]].containerId = Null
          /\ containerId[c] = Null
          /\ ~NameInUse(id[c])'
          /\ notifications' = Append(notifications, <<"BOT_ERROR", id[c]>>)]_vars

\* A start call whose image pull failed has raised; the bot is in ERROR with no
\* container.
C9_Witness ==
  /\ ~overlapped /\ faults = 1
  /\ last = [op |-> "start", id |-> 1, outcome |-> "ImagePullError"]
  /\ Exists(1) /\ bots[1].status = "ERROR" /\ bots[1].containerId = Null
  /\ containers = <<>>
  /\ notifications = <<<<"BOT_CREATED", 1>>, <<"BOT_ERROR", 1>>>>

\* ----------------------------------------------------------------- C10
\* A call of `f` on bot b is accepted in this step (and rejected or not).
Called(f, b) ==
  /\ invoked' = invoked + 1
  /\ \/ Rejected(f, b)
     \/ \E c \in Calls : Idle(c) /\ op'[c] = f /\ id'[c] = b /\ pc'[c] # "idle"

\* C10: a start on a bot whose status is RUNNING raises AlreadyRunning, a stop
\* or restart on a bot whose containerId is null raises NoContainer (the load
\* itself not failing), and the rejecting step changes neither the bot rows,
\* nor the history, nor the engine, nor the code directories, and issues no
\* notification.
C10_RejectionChangesNothing ==
  [][\A b \in DOMAIN bots :
       /\ (Called("start", b) /\ bots[b].status = "RUNNING" /\ faults' = faults)
            => Rejected("start", b) /\ last'.outcome = "AlreadyRunning"
       /\ \A f \in {"stop", "restart"} :
            (Called(f, b) /\ bots[b].containerId = Null /\ faults' = faults)
            => Rejected(f, b) /\ last'.outcome = "NoContainer"
       /\ \A f \in {"start", "stop", "restart"} :
            (Rejected(f, b) /\ last'.outcome \in {"AlreadyRunning", "NoContainer"})
            => UNCHANGED <<bots, history, dirs, containers, nextCid, image,
                           notifications>>]_vars

\* A start has been rejected on a RUNNING bot.
C10_Witness ==
  /\ last = [op |-> "start", id |-> 1, outcome |-> "AlreadyRunning"]
  /\ \A c \in Calls : Idle(c)
  /\ Exists(1) /\ bots[1].status = "RUNNING"

\* ----------------------------------------------------------------- C11
\* C11: in a run of one call at a time, a delete call that loaded an existing
\* bot and whose prisma.bot.delete does not fail returns successfully with the
\* bot row gone, whether or not the removal of the container or of the code
\* directory failed; and every BOT_DELETED notification is issued in the step
\* that deletes the row, never while the row still exists.
C11_DeleteAlwaysDeletes ==
  [][/\ \A c \in Calls :
          (/\ Returns(c) /\ op[c] = "delete" /\ ~overlapped
           /\ (pc[c] = "persist" => faults' = faults))
          => /\ last' = [op |-> "delete", id |-> id[c], outcome |-> "ok"]
             /\ Exists(id[c]) /\ ~Exists(id[c])'
             /\ notifications' = Append(notifications, <<"BOT_DELETED", id[c]>>)
     /\ \A b \in BotIds :
          (/\ Len(notifications') > Len(notifications)
           /\ notifications'[Len(notifications')] = <<"BOT_DELETED", b>>)
          => Exists(b) /\ ~Exists(b)']_vars

\* A delete has returned successfully although both the removal of the bot's
\* container and the removal of its code directory failed: the row is gone,
\* the container and the directory are still there.
C11_Witness ==
  /\ ~overlapped /\ faults = 2 /\ invoked = 2
  /\ last = [op |-> "delete", id |-> 1, outcome |-> "ok"]
  /\ ~Exists(1) /\ 1 \in dirs /\ NameInUse(1)
  /\ notifications =
       <<<<"BOT_CREATED", 1>>, <<"BOT_STARTED", 1>>, <<"BOT_DELETED", 1>>>>

\* ----------------------------------------------------------------- C12
\* C12: in a run of one call at a time, a start call that returns successfully
\* issues BOT_STARTED in its last step, and a start call that raises after its
\* STARTING write issues BOT_ERROR in its last step.
C12_StartNotifies ==
  [][\A c \in Calls :
       (Returns(c) /\ op[c] = "start" /\ ~overlapped)
       => /\ last'.outcome = "ok"
               => notifications' = Append(notifications, <<"BOT_STARTED", id[c]>>)
          /\ (last'.outcome # "ok" /\ pc[c] # "setStatus")
               => notifications' = Append(notifications, <<"BOT_ERROR", id[c]>>)]_vars

\* ----------------------------------------------------------------- C24
\* C24: in a run of one call at a time in which one outside failure has
\* happened, a start call never reaches docker.createContainer while the
\* engine still holds a container of the bot that an earlier start created
\* and never started: the retry has removed the leftover first, so that its
\* createContainer can succeed.
C24_RetryRemovesLeftover ==
  \A c \in Calls :
    (pc[c] = "create" /\ op[c] = "start" /\ ~overlapped /\ faults = 1)
    => ~\E x \in DOMAIN containers :
          containers[x] = [name |-> id[c], state |-> "created"]

\* ----------------------------------------------------------------- C25
\* C25: in a run of one call at a time, a start, stop or restart call that
\* returns or raises with the persisted status changed from the one it
\* loaded to RUNNING, STOPPED or ERROR has appended a StatusHistory row with
\* that status as the bot's latest row; and no step of any lifecycle call
\* changes or removes a row that exists.
C25_RowPerStatusChange ==
  [][/\ \A c \in Calls :
          (/\ Returns(c) /\ op[c] \in {"start", "stop", "restart"}
           /\ ~overlapped
           /\ Exists(id[c])'
           /\ bots'[id[c]].status \in {"RUNNING", "STOPPED", "ERROR"}
           /\ bots'[id[c]].status # bot[c].status)
          => /\ history'[id[c]] # <<>>
             /\ history'[id[c]][Len(history'[id[c]])] = bots'[id[c]].status
     /\ \A b \in DOMAIN history :
          /\ Len(history[b]) <= Len(history'[b])
          /\ SubSeq(history'[b], 1, Len(history[b])) = history[b]]_vars

\* ----------------------------------------------------------------- C26
\* C26: a step changes a bot's containerId only if it is the update of a
\* start call that created that container and started it; and in a run of
\* one call at a time a start call that raises leaves the containerId it
\* loaded (restart and stop calls, having no such update, leave it too).
C26_ContainerIdWrittenBySuccessfulStart ==
  [][/\ \A b \in (DOMAIN bots) \cap (DOMAIN bots') :
          bots'[b].containerId # bots[b].containerId
          => \E c \in Calls :
               /\ op[c] = "start" /\ pc[c] = "persist" /\ id[c] = b
               /\ bots'[b].containerId = containerId[c]
               /\ ContainerExists(containerId[c])
               /\ containers[containerId[c]].state = "running"
     /\ \A c \in Calls :
          (/\ Returns(c) /\ op[c] = "start" /\ ~overlapped
           /\ last'.outcome # "ok" /\ Exists(id[c])')
          => bots'[id[c]].containerId = bot[c].containerId]_vars

\* ----------------------------------------------------------------- C27
\* C27: whenever no lifecycle call is in flight and nothing has failed
\* outside, a STOPPED bot's containerId names no running container, and a
\* RUNNING bot's containerId names a container that exists and runs.
C27_QuiescentStatusMatchesEngine ==
  \A b \in DOMAIN bots :
    (faults = 0 /\ \A c \in Calls : Idle(c))
    => LET cid == bots[b].containerId IN
         /\ (bots[b].status = "STOPPED" /\ cid # Null /\ ContainerExists(cid))
              => containers[cid].state # "running"
         /\ bots[b].status = "RUNNING"
              => /\ cid # Null /\ ContainerExists(cid)
                 /\ containers[cid].state = "running"

\* ----------------------------------------------------------------- C29
\* C29: whenever a bot has been deleted, no lifecycle call is in flight and
\* nothing has failed outside, the engine holds no container of that bot.
C29_DeleteLeavesNoContainer ==
  \A b \in BotIds :
    (/\ b <= nextBot /\ ~Exists(b)
     /\ faults = 0 /\ \A c \in Calls : Idle(c))
    => ~NameInUse(b)

\* ----------------------------------------------------------------- C30
\* C30: in a run of one call at a time, a start call that raises with the
\* status ERROR persisted has not left a container running under the bot's
\* recorded containerId.
C30_ErrorLeavesNoRunningContainer ==
  [][\A c \in Calls :
       (/\ Returns(c) /\ op[c] = "start" /\ ~overlapped
        /\ last'.outcome # "ok"
        /\ Exists(id[c])' /\ bots'[id[c]].status = "ERROR")
       => ~(/\ bots'[id[c]].containerId # Null
            /\ bots'[id[c]].containerId \in DOMAIN containers'
            /\ containers'[bots'[id[c]].containerId].state = "running")]_vars

\* ========================================================== log streams
\* streamContainerLogs (docker.service) and its consumer, the 'subscribe:logs',
\* 'unsubscribe:logs' and 'disconnect' handlers of the WebSocket gateway.  The
\* engine's log stream is a Node Readable: it emits 'data' while it is open, a
\* stream-level failure destroys it with the error it emits, and destroy()
\* makes it emit nothing more.
MaxLines == 1       \* lines one log stream delivers
MaxCancels == 2     \* calls of one cancel function by its holder
MaxRequests == 2    \* 'subscribe:logs' events of one run

Sockets == {1}

\* let stream = null; let aborted = false; container.logs(...) is in flight.
\* attach: the promise of container.logs; logStream: the engine's stream;
\* stream: the local `stream` refers to it; lines, errors: calls of onLog and
\* onError made; cancels: calls of the returned function made.
streamContainerLogs ==
  [aborted |-> FALSE, attach |-> "pending", logStream |-> "none", stream |-> FALSE,
   lines |-> 0, errors |-> 0, cancels |-> 0]

\* A cancel function that only sets the flag.
cleanup_NoDestroy(s) == [s EXCEPT !.aborted = TRUE, !.cancels = @ + 1]

\* The returned function: aborted = true; if (stream) stream.destroy().
cleanup(s) ==
  [s EXCEPT !.aborted = TRUE,
            !.cancels = @ + 1,
            !.logStream = IF s.stream THEN "destroyed" ELSE @]

\* .then((logStream) => { if (aborted) { logStream.destroy(); return; } ... })
attach_then(s) ==
  IF s.aborted
  THEN [s EXCEPT !.attach = "resolved", !.logStream = "destroyed"]
  ELSE [s EXCEPT !.attach = "resolved", !.logStream = "open", !.stream = TRUE]

\* .catch(onError)
attach_catch(s) == [s EXCEPT !.attach = "rejected", !.errors = @ + 1]

\* A stream that stays open after it has emitted 'error'.
emitError_StaysOpen(s) == [s EXCEPT !.errors = @ + 1]

\* stream.on('error', onError): the failing stream is destroyed with the error.
emitError(s) == [s EXCEPT !.logStream = "destroyed", !.errors = @ + 1]

\* stream.on('data', ...): one chunk holding one non-blank line.
emitData(s) == [s EXCEPT !.lines = @ + 1]

Listening(s) == s.stream /\ s.logStream = "open"

\* The promise of container.logs settles.
attach(i, ok) ==
  /\ streams[i].attach = "pending"
  /\ streams' = [streams EXCEPT ![i] = IF ok THEN attach_then(@) ELSE attach_catch(@)]
  /\ UNCHANGED <<activeSubscriptions, pending, requests>>
  /\ UNCHANGED notLogs

data(i) ==
  /\ Listening(streams[i])
  /\ streams[i].lines < MaxLines
  /\ streams' = [streams EXCEPT ![i] = emitData(@)]
  /\ UNCHANGED <<activeSubscriptions, pending, requests>>
  /\ UNCHANGED notLogs

streamError(i) ==
  /\ Listening(streams[i])
  /\ streams' = [streams EXCEPT ![i] = emitError(@)]
  /\ UNCHANGED <<activeSubscriptions, pending, requests>>
  /\ UNCHANGED notLogs

\* The container's output ends.
end(i) ==
  /\ streams[i].logStream = "open"
  /\ streams' = [streams EXCEPT ![i].logStream = "ended"]
  /\ UNCHANGED <<activeSubscriptions, pending, requests>>
  /\ UNCHANGED notLogs

\* The holder of a cancel function calls it (again).
cancel(i) ==
  /\ streams[i].cancels < MaxCancels
  /\ streams' = [streams EXCEPT ![i] = cleanup(@)]
  /\ UNCHANGED <<activeSubscriptions, pending, requests>>
  /\ UNCHANGED notLogs

\* ------------------------------------------------------------- gateway
Connected(sock) == sock \in DOMAIN activeSubscriptions

Subscribed(sock, b) == Connected(sock) /\ b \in DOMAIN activeSubscriptions[sock]

\* A handler that starts the new stream without cancelling the old one.
existingCleanup_Skipped(sock, b) == streams

\* const existingCleanup = subscriptions?.get(botId); if (existingCleanup) existingCleanup()
existingCleanup(sock, b) ==
  IF Subscribed(sock, b)
  THEN [streams EXCEPT ![activeSubscriptions[sock][b]] = cleanup(@)]
  ELSE streams

\* subscriptions?.set(botId, cleanup)
subscriptions_set(sock, b, i) ==
  IF Connected(sock)
  THEN [activeSubscriptions EXCEPT ![sock] =
          [x \in (DOMAIN @) \cup {b} |-> IF x = b THEN i ELSE @[x]]]
  ELSE activeSubscriptions

\* socket.on('subscribe:logs'): the handler runs up to its await of findUnique.
subscribe_logs(sock, b) ==
  /\ Connected(sock)
  /\ requests < MaxRequests
  /\ requests' = requests + 1
  /\ pending' = [pending EXCEPT ![b] = @ + 1]
  /\ UNCHANGED <<streams, activeSubscriptions>>
  /\ UNCHANGED notLogs

\* findUnique returns and the handler runs to its end: the old subscription of
\* the key is cancelled, the new stream is started and its cancel is stored.
subscribe_findUnique(sock, b, ok) ==
  /\ pending[b] > 0
  /\ pending' = [pending EXCEPT ![b] = @ - 1]
  /\ IF ~ok \/ ~Exists(b) \/ bots[b].containerId = Null
     THEN UNCHANGED <<streams, activeSubscriptions>>
     ELSE /\ streams' = Append(existingCleanup(sock, b), streamContainerLogs)
          /\ activeSubscriptions' = subscriptions_set(sock, b, Len(streams) + 1)
  /\ UNCHANGED requests
  /\ UNCHANGED notLogs

\* socket.on('unsubscribe:logs')
unsubscribe_logs(sock, b) ==
  /\ Subscribed(sock, b)
  /\ streams' = existingCleanup(sock, b)
  /\ activeSubscriptions' =
       [activeSubscriptions EXCEPT ![sock] = Without(@, b)]
  /\ UNCHANGED <<pending, requests>>
  /\ UNCHANGED notLogs

\* socket.on('disconnect'): every cancel of the socket is called, its map dropped.
disconnect(sock) ==
  /\ Connected(sock)
  /\ streams' = [i \in DOMAIN streams |->
                   IF \E b \in DOMAIN activeSubscriptions[sock] :
                        activeSubscriptions[sock][b] = i
                   THEN cleanup(streams[i]) ELSE streams[i]]
  /\ activeSubscriptions' = Without(activeSubscriptions, sock)
  /\ UNCHANGED <<pending, requests>>
  /\ UNCHANGED notLogs

\* ----------------------------------------------------------------- C13
\* C13: once the cancel function of a log stream has returned, no step invokes
\* that stream's onLine or onError again.
C13_NoCallbackAfterCancel ==
  [][\A i \in DOMAIN streams :
       streams[i].aborted
       => /\ streams'[i].lines = streams[i].lines
          /\ streams'[i].errors = streams[i].errors]_logVars

\* ----------------------------------------------------------------- C14
\* A step calls the cancel function of stream i.
Cancelled(i) == streams'[i].cancels = streams[i].cancels + 1

\* C14: a log stream cancelled before its attach completed never delivers a
\* line and its engine stream is destroyed in the step that completes the
\* attach; a stream cancelled after its attach is destroyed; and a call of the
\* cancel function on a stream that is already cancelled or has ended invokes
\* no callback and, when already cancelled, changes nothing.
C14_CancelIdempotent ==
  [][\A i \in DOMAIN streams :
       /\ (streams[i].aborted /\ ~streams[i].stream)
            => ~streams'[i].stream /\ streams[i].lines = 0 /\ streams'[i].lines = 0
       /\ (streams[i].aborted /\ streams[i].attach = "pending"
             /\ streams'[i].attach = "resolved")
            => streams'[i].logStream = "destroyed"
       /\ (streams'[i].aborted /\ streams'[i].attach = "resolved")
            => streams'[i].logStream = "destroyed"
       /\ (Cancelled(i) /\ streams[i].logStream = "ended")
            => /\ streams'[i].lines = streams[i].lines
               /\ streams'[i].errors = streams[i].errors
       /\ (Cancelled(i) /\ streams[i].aborted)
            => streams'[i] = [streams[i] EXCEPT !.cancels = @ + 1]]_logVars

\* A stream was cancelled before its attach completed and cancelled again: the
\* attach has completed, the engine stream is destroyed, no line was delivered.
C14_Witness ==
  \E i \in DOMAIN streams :
    /\ streams[i].cancels = 2 /\ streams[i].aborted
    /\ streams[i].attach = "resolved" /\ ~streams[i].stream
    /\ streams[i].logStream = "destroyed" /\ streams[i].lines = 0

Subscribes == Len(streams') = Len(streams) + 1

\* C16 (one socket, one bot: every stream belongs to the one key): when the
\* handler starts a stream for a key that holds a subscription, the old
\* stream is cancelled in that step, in which the new stream's attach is still
\* pending, and the key then holds the new stream's cancel; and while the
\* socket is connected at most one stream is not cancelled, the one whose
\* cancel the key holds.
C16_OneStreamPerKey ==
  [][\A sock \in Sockets, b \in BotIds :
       /\ (Subscribes /\ Connected(sock))
            => /\ Subscribed(sock, b)
                    => streams'[activeSubscriptions[sock][b]].aborted
               /\ streams'[Len(streams')] = streamContainerLogs
               /\ Subscribed(sock, b)' /\ activeSubscriptions'[sock][b] = Len(streams')
       /\ Connected(sock)'
            => \A i \in DOMAIN streams' :
                 ~streams'[i].aborted
                 => /\ Subscribed(sock, b)' /\ activeSubscriptions'[sock][b] = i
                    /\ \A j \in DOMAIN streams' : ~streams'[j].aborted => j = i]_logVars

\* Two 'subscribe:logs' requests were both awaiting findUnique; both have
\* started their stream: the first stream is cancelled, the key holds the second.
C16_Witness ==
  /\ Len(streams) = 2 /\ requests = 2 /\ pending[1] = 0
  /\ streams[1].aborted /\ streams[1].cancels = 1 /\ streams[1].attach = "pending"
  /\ ~streams[2].aborted
  /\ Subscribed(1, 1) /\ activeSubscriptions[1][1] = 2

\* ----------------------------------------------------------------- C28
\* C28: once a socket has disconnected and no 'subscribe:logs' handler is
\* waiting for its lookup any more, every log stream that was started has been
\* cancelled.
C28_NoStreamOutlivesItsSocket ==
  \A sock \in Sockets :
    (~Connected(sock) /\ \A b \in BotIds : pending[b] = 0)
    => \A i \in DOMAIN streams : streams[i].aborted

\* ========================================================= log decoding
\* The 'data' handler of streamContainerLogs and stripDockerTimestamp.  A text
\* is a sequence of characters.
MaxChunks == 2      \* chunks of one stream

HeaderLength == 8   \* line.length > 8, line.substring(8)

Digit == {"0", "1", "2", "3", "4", "5", "6", "7", "8", "9"}

Space == {" ", "\t", "\r", "\n"}

\* chunk.toString('utf8').split('\n')
RECURSIVE split(_)
split(text) ==
  IF \A i \in 1..Len(text) : text[i] # "\n" THEN <<text>>
  ELSE LET k == CHOOSE i \in 1..Len(text) :
                  text[i] = "\n" /\ \A j \in 1..(i - 1) : text[j] # "\n"
       IN <<SubSeq(text, 1, k - 1)>> \o split(SubSeq(text, k + 1, Len(text)))

\* line.substring(n)
substring(line, n) == SubSeq(line, n + 1, Len(line))

\* line.trim()
trim(line) ==
  LET ink == {i \in 1..Len(line) : line[i] \notin Space} IN
    IF ink = {} THEN <<>>
    ELSE SubSeq(line, CHOOSE i \in ink : \A j \in ink : i <= j,
                      CHOOSE i \in ink : \A j \in ink : j <= i)

\* \d{n} at position i
Digits(line, i, n) ==
  \A j \in i..(i + n - 1) : j <= Len(line) /\ line[j] \in Digit

At(line, i, ch) == i <= Len(line) /\ line[i] = ch

\* ^\d{4}-\d{2}-\d{2}T\d{2}:\d{2}:\d{2}
timestampRegex_date(line) ==
  /\ Digits(line, 1, 4) /\ At(line, 5, "-") /\ Digits(line, 6, 2)
  /\ At(line, 8, "-") /\ Digits(line, 9, 2) /\ At(line, 11, "T")
  /\ Digits(line, 12, 2) /\ At(line, 14, ":") /\ Digits(line, 15, 2)
  /\ At(line, 17, ":") /\ Digits(line, 18, 2)

\* The first position from i on that holds no character of `class`.
RECURSIVE Skip(_, _, _)
Skip(line, i, class) ==
  IF i <= Len(line) /\ line[i] \in class THEN Skip(line, i + 1, class) ELSE i

\* The length of the match of timestampRegex at the start of line, 0 if none:
\* the date and time, (\.\d+)?, Z, \s*
timestampRegex(line) ==
  IF ~timestampRegex_date(line) THEN 0
  ELSE LET z == IF At(line, 20, ".") /\ Skip(line, 21, Digit) > 21
                THEN Skip(line, 21, Digit) ELSE 20
       IN IF At(line, z, "Z") THEN Skip(line, z + 1, Space) - 1 ELSE 0

\* A function that leaves the line as it is.
stripDockerTimestamp_Keep(line) == line

\* line.replace(timestampRegex, '')
stripDockerTimestamp(line) == substring(line, timestampRegex(line))

\* for (const line of lines) { if (line.length > 8) { ... onLog(cleanLine) } }
RECURSIVE forLines(_)
forLines(lines) ==
  IF lines = <<>> THEN <<>>
  ELSE LET line == Head(lines)
           cleanLine == stripDockerTimestamp(substring(line, HeaderLength))
       IN (IF Len(line) > HeaderLength /\ trim(cleanLine) # <<>>
           THEN <<cleanLine>> ELSE <<>>) \o forLines(Tail(lines))

\* stream.on('data', (chunk) => ...): the handler processes the next chunk.
onData ==
  /\ read < Len(chunks)
  /\ read' = read + 1
  /\ delivered' = delivered \o forLines(split(chunks[read + 1]))
  /\ UNCHANGED chunks
  /\ UNCHANGED notDecode

\* ---------------------------------------------------------- sample chunks
Header == <<"^", "^", "^", "^", "^", "^", "^", "^">>
Time == <<"2", "0", "2", "4", "-", "0", "1", "-", "2", "8", "T",
          "0", "9", ":", "2", "5", ":", "0", "6">>
Fraction == <<".", "9", "7", "7", "0", "6", "9", "8", "7", "5">>
Hello == <<"h", "e", "l", "l", "o">>

\* "<8-byte-header>2024-01-28T09:25:06.977069875Z hello\n"
Example == Header \o Time \o Fraction \o <<"Z", " ">> \o Hello \o <<"\n">>

Chunks ==
  { Example,
    \* no timestamp
    Header \o <<"h", "i", "\n">>,
    \* two lines, the first stamped without fraction or space, the second blank
    Header \o Time \o <<"Z", "o", "k", "\n">> \o Header \o <<" ", " ", "\n">>,
    \* nothing but a timestamp
    Header \o Time \o Fraction \o <<"Z", " ", "\n">>,
    \* shorter than a header
    <<"h", "i", "\n">>,
    \* a dot without digits: no timestamp
    Header \o Time \o <<".", "Z", " ", "x", "\n">>,
    \* a timestamp that is not at the start, and no newline at the end
    Header \o <<"a", " ">> \o Time \o <<"Z", " ", "x">>,
    \* empty lines
    <<"\n", "\n">> }

\* ----------------------------------------------------------------- C17
\* p is a timestamp followed by white space and nothing else:
\* YYYY-MM-DDTHH:MM:SS[.fraction]Z and white space.
IsStamp(p) ==
  /\ Len(p) >= 20
  /\ p[5] = "-" /\ p[8] = "-" /\ p[11] = "T" /\ p[14] = ":" /\ p[17] = ":"
  /\ \A i \in (1..19) \ {5, 8, 11, 14, 17} : p[i] \in Digit
  /\ \E z \in 20..Len(p) :
       /\ p[z] = "Z"
       /\ z = 20 \/ (z >= 22 /\ p[20] = "." /\ \A j \in 21..(z - 1) : p[j] \in Digit)
       /\ \A j \in (z + 1)..Len(p) : p[j] \in Space

\* A raw line decoded: without its first 8 characters and without the longest
\* timestamp prefix of what follows.
Decoded(raw) ==
  LET body == SubSeq(raw, HeaderLength + 1, Len(raw))
      K == {k \in 1..Len(body) : IsStamp(SubSeq(body, 1, k))}
  IN IF K = {} THEN body
     ELSE SubSeq(body, (CHOOSE k \in K : \A j \in K : j <= k) + 1, Len(body))

Blank(line) == \A i \in 1..Len(line) : line[i] \in Space

\* The non-blank decoded lines of a chunk, in order.
DecodedLines(chunk) ==
  LET lines == split(chunk) IN
    SelectSeq([i \in 1..Len(lines) |-> Decoded(lines[i])], LAMBDA l : ~Blank(l))

\* C17: the 'data' handler invokes onLine once for each non-blank decoded line
\* of the chunk it processes, in order, and for nothing else; for the chunk
\* "<8-byte-header>2024-01-28T09:25:06.977069875Z hello\n" it makes exactly one
\* call, with "hello".
C17_OneCallPerDecodedLine ==
  [][read' = read + 1
     => /\ delivered' = delivered \o DecodedLines(chunks[read + 1])
        /\ chunks[read + 1] = Example => delivered' = Append(delivered, Hello)]_decodeVars

\* The example chunk was processed after a chunk of two lines that gave one
\* call: the last call delivered "hello".
C17_Witness ==
  /\ read = 2 /\ Len(chunks) = 2 /\ chunks[2] = Example
  /\ Len(split(chunks[1])) = 3
  /\ delivered = <<<<"o", "k">>, Hello>>

\* ======================================================= Runtime Client
\* A caller of docker.service applies one of its functions to a container id.
MaxClientCalls == 2     \* calls made in one run

ContainerIds == {1, 2}

ClientFunctions ==
  {"startContainer", "stopContainer", "restartContainer", "removeContainer",
   "getContainerStatus"}

Apply(fn, cid, ok) ==
  CASE fn = "startContainer" -> startContainer(cid, ok)
    [] fn = "stopContainer" -> stopContainer(cid, ok)
    [] fn = "restartContainer" -> restartContainer(cid, ok)
    [] fn = "removeContainer" -> removeContainer(cid, ok)
    [] fn = "getContainerStatus" -> getContainerStatus(cid, ok)

\* The function runs: the engine changes as it says, the call is recorded with
\* the engine's state before it, whether it threw and the status it returned.
clientCall(fn, cid, ok) ==
  /\ Len(calls) < MaxClientCalls
  /\ LET r == Apply(fn, cid, ok) IN
       /\ containers' = r.cs
       /\ calls' = Append(calls,
            [fn |-> fn, cid |-> cid, ok |-> ok, before |-> containers,
             threw |-> r.threw,
             status |-> IF fn = "getContainerStatus" THEN r.status ELSE "none"])
  /\ UNCHANGED notClient

\* ----------------------------------------------------------------- C18
\* C18: a removeContainer that directly follows a successful removeContainer
\* of the same id, or is applied to any absent container, and a stopContainer
\* applied to an existing container that is not running, the engine answering,
\* raise no error and leave the engine as it was.
C18_Idempotent ==
  [][Len(calls') = Len(calls) + 1
     => LET call == calls'[Len(calls')]
            repeated == /\ calls # <<>>
                        /\ calls[Len(calls)].fn = "removeContainer"
                        /\ calls[Len(calls)].cid = call.cid
                        /\ ~calls[Len(calls)].threw
        IN /\ (/\ call.fn = "removeContainer" /\ call.ok
               /\ repeated \/ ~ContainerExists(call.cid))
                => ~call.threw /\ containers' = containers
           /\ (/\ call.fn = "stopContainer" /\ call.ok
               /\ ContainerExists(call.cid)
               /\ containers[call.cid].state # "running")
                => ~call.threw /\ containers' = containers]_<<containers, calls>>

\* removeContainer removed a container and was called again on the same id;
\* the second call did not throw.
C18_Witness ==
  /\ Len(calls) = 2
  /\ calls[1].fn = "removeContainer" /\ calls[2].fn = "removeContainer"
  /\ calls[1].cid = calls[2].cid /\ calls[1].ok /\ calls[2].ok
  /\ calls[1].cid \in DOMAIN calls[1].before
  /\ ~calls[1].threw /\ ~calls[2].threw
  /\ containers = calls[2].before

\* ----------------------------------------------------------------- C19
\* C19: a stopContainer, restartContainer or removeContainer applied to a
\* container that does not exist, the engine answering, raises no error and
\* changes nothing, and getContainerStatus then returns 'unknown'.
C19_NotFoundAbsorbed ==
  \A k \in DOMAIN calls :
    (/\ calls[k].ok
     /\ calls[k].cid \notin DOMAIN calls[k].before
     /\ calls[k].fn \in {"stopContainer", "restartContainer", "removeContainer",
                         "getContainerStatus"})
    => /\ ~calls[k].threw
       /\ calls[k].fn = "getContainerStatus" => calls[k].status = "unknown"

\* =========================================================== reconciler
\* main's statsInterval and analytics.service recordBotStats.  A sweep ends
\* before the next tick (the interval is five minutes).
MaxTicks == 2       \* ticks of one run

SweepBots == {1, 2}

\* getContainerStats: the sample, or null on any failure (the container is
\* gone, the engine fails).
getContainerStats(cid, ok) ==
  IF ok /\ ContainerExists(cid) THEN "stats" ELSE "none"

\* A findMany that selects every bot with a container.
recordBotStats_where_AnyStatus(row) == row.containerId # Null

\* where: { status: 'RUNNING', containerId: { not: null } }
recordBotStats_where(row) == row.status = "RUNNING" /\ row.containerId # Null

\* The orders in which findMany may return the bots of a set.
Orders(set) ==
  {q \in [1..Cardinality(set) -> set] : \A b \in set : \E i \in DOMAIN q : q[i] = b}

\* No sweep in progress; `containerId` is the containerId of each selected row
\* as findMany returned it; `raised`, `found`, `failed` and `appended` tell of the
\* last sweep whether recordBotStats raised, which bots it selected, which
\* bots' sampling or recording failed, and how many rows it appended to each bot.
NoSweep ==
  [pc |-> "idle", runningBots |-> <<>>, containerId |-> <<>>,
   stats |-> "none", raised |-> FALSE,
   found |-> {}, failed |-> {}, appended |-> [b \in SweepBots |-> 0]]

\* setInterval fires: recordBotStats is called and awaits findMany.
statsInterval ==
  /\ sweep.pc = "idle"
  /\ ticks < MaxTicks
  /\ ticks' = ticks + 1
  /\ sweep' = [NoSweep EXCEPT !.pc = "findMany"]
  /\ UNCHANGED history
  /\ UNCHANGED notStats

\* findMany returns the selected bots in some order, or rejects: recordBotStats
\* raises and statsInterval's catch logs it.
recordBotStats_findMany(ok) ==
  /\ sweep.pc = "findMany"
  /\ IF ok
     THEN LET set == {b \in DOMAIN bots : recordBotStats_where(bots[b])} IN
            \E q \in Orders(set) :
              sweep' = [sweep EXCEPT !.pc = IF q = <<>> THEN "idle" ELSE "stats",
                                     !.runningBots = q, !.found = set,
                                     !.containerId =
                                        [b \in set |-> bots[b].containerId]]
     ELSE sweep' = [sweep EXCEPT !.pc = "idle", !.raised = TRUE]
  /\ UNCHANGED <<history, ticks>>
  /\ UNCHANGED notStats

\* The loop goes on to the next bot, or recordBotStats returns.
NextBot(s) ==
  [s EXCEPT !.runningBots = Tail(@), !.stats = "none",
            !.pc = IF Len(s.runningBots) > 1 THEN "stats" ELSE "idle"]

\* const stats = await dockerService.getContainerStats(bot.containerId)
recordBotStats_getContainerStats(ok) ==
  /\ sweep.pc = "stats"
  /\ LET b == Head(sweep.runningBots)
         stats == getContainerStats(sweep.containerId[b], ok)
     IN sweep' = IF stats = "none"
                 THEN NextBot([sweep EXCEPT !.failed = @ \cup {b}])
                 ELSE [sweep EXCEPT !.pc = "create", !.stats = stats]
  /\ UNCHANGED <<history, ticks>>
  /\ UNCHANGED notStats

\* A catch clause that lets the failure of one bot end the sweep.
recordBotStats_catch_Rethrow(s) ==
  [s EXCEPT !.pc = "idle", !.runningBots = <<>>, !.stats = "none", !.raised = TRUE]

\* catch (error) { /* Ignore errors for individual bots */ }
recordBotStats_catch(s) == NextBot(s)

\* if (stats) await prisma.botStatusHistory.create({status: 'RUNNING', ...});
\* a rejection is caught and ignored.
recordBotStats_create(ok) ==
  /\ sweep.pc = "create"
  /\ LET b == Head(sweep.runningBots) IN
       IF ok /\ Exists(b)
       THEN /\ history' = [history EXCEPT ![b] = Append(@, "RUNNING")]
            /\ sweep' = NextBot([sweep EXCEPT !.appended[b] = @ + 1])
       ELSE /\ UNCHANGED history
            /\ sweep' = recordBotStats_catch([sweep EXCEPT !.failed = @ \cup {b}])
  /\ UNCHANGED ticks
  /\ UNCHANGED notStats

\* ----------------------------------------------------------------- C20
\* C20: the findMany of a tick, when it does not fail, selects exactly the bots
\* recorded as RUNNING with a non-null containerId; and when the sweep ends, it has appended one
\* StatusHistory row, with status RUNNING, to each selected bot whose stats the
\* engine gave and whose row the database accepted, and none to any other bot.
C20_OneRowPerRunningBot ==
  [][/\ (sweep.pc = "findMany" /\ sweep'.pc # "findMany" /\ ~sweep'.raised)
          => sweep'.found = {b \in DOMAIN bots :
                               bots[b].status = "RUNNING" /\ bots[b].containerId # Null}
     /\ \A b \in SweepBots :
          /\ history'[b] = history[b]
               \/ (/\ history'[b] = Append(history[b], "RUNNING")
                   /\ sweep'.appended[b] = sweep.appended[b] + 1
                   /\ b \in sweep.found)
          /\ (sweep.pc \in {"stats", "create"} /\ sweep'.pc = "idle")
               => sweep'.appended[b] =
                    IF b \in sweep'.found \ sweep'.failed THEN 1 ELSE 0]_<<history, sweep>>

\* A sweep over two RUNNING bots has ended: one row was appended to each.
C20_Witness ==
  /\ sweep.pc = "idle" /\ ticks = 1
  /\ sweep.found = SweepBots /\ sweep.failed = {}
  /\ \A b \in SweepBots :
       /\ bots[b].status = "RUNNING"
       /\ sweep.appended[b] = 1
       /\ history[b] = <<"RUNNING", "RUNNING">>

\* ----------------------------------------------------------------- C21
\* C21: within one sweep, a step that samples or records one bot, whether it
\* succeeds or fails (no sample because a stop or delete is tearing the
\* container down, no row because the bot was deleted), never makes
\* recordBotStats raise and never drops another bot from the sweep: the loop
\* stays on the bot or moves to the next one, and it returns only after the
\* last bot, when every selected bot has either got its row or failed alone.
C21_FailureStaysWithItsBot ==
  [][sweep.pc \in {"stats", "create"} =>
       /\ ~sweep'.raised
       /\ sweep'.found = sweep.found
       /\ sweep'.runningBots \in {sweep.runningBots, Tail(sweep.runningBots)}
       /\ sweep'.pc = "idle" =>
            /\ Len(sweep.runningBots) = 1
            /\ \A b \in sweep'.found :
                 b \in sweep'.failed \/ sweep'.appended[b] = 1]_sweep

\* A sweep selected both bots, bot 1 was deleted under it and failed, and
\* bot 2 still got its row.
C21_Witness ==
  /\ sweep.pc = "idle" /\ ticks = 1
  /\ sweep.found = SweepBots
  /\ ~Exists(1)
  /\ sweep.failed = {1}
  /\ sweep.appended[2] = 1

\* ============================================================ cpu usage
\* getContainerStats computes in floating point; here the quotient is the
\* exact rational and a returned usage is an integer number of hundredths of a
\* percent, which is what Math.round(cpuUsage * 100) / 100 can return.

MaxStatsCalls == 1   \* getContainerStats calls on the sample

\* The engine's counters: differences of nanoseconds, negative when a counter
\* was reset; online_cpus is 0 when the engine reports none.
CpuDeltas == {0, 1, 2, 200}
SystemDeltas == {-1, 0, 1, 3, 7, 1000}
OnlineCpus == {0, 1, 2, 4}

\* A rounding that cuts the digits after the second decimal off.
Math_round_Truncate(n, d) == n \div d

\* Math.round(n / d) for d > 0: the nearest integer, a half going up.
Math_round(n, d) == (2 * n + d) \div (2 * d)

\* const cpuCount = stats.cpu_stats.online_cpus || 1
cpuCount(online_cpus) == IF online_cpus = 0 THEN 1 ELSE online_cpus

\* cpuUsage: Math.round(cpuUsage * 100) / 100 with
\* cpuUsage = systemDelta > 0 ? (cpuDelta / systemDelta) * cpuCount * 100 : 0
getContainerStats_cpuUsage(s) ==
  IF s.systemDelta > 0
  THEN Math_round(s.cpuDelta * cpuCount(s.online_cpus) * 100 * 100, s.systemDelta)
  ELSE 0

\* getContainerStats returns the usage of the sample.
getContainerStats_return ==
  /\ Len(returned) < MaxStatsCalls
  /\ returned' = Append(returned, getContainerStats_cpuUsage(cpu_stats))
  /\ UNCHANGED <<cpu_stats, host, windowsPath, converted>>
  /\ UNCHANGED <<vars, logVars, decodeVars, clientVars, statVars>>

\* ----------------------------------------------------------------- C22
\* C22 as stated: every returned usage is exactly
\* (cpuDelta / systemDelta) * online_cpus * 100 when systemDelta > 0, and 0
\* when systemDelta <= 0; for cpuDelta 200, systemDelta 1000 and 4 cpus it is 80.
C22_ExactFormula ==
  \A i \in DOMAIN returned :
    /\ cpu_stats.systemDelta <= 0 => returned[i] = 0
    /\ cpu_stats.systemDelta > 0 =>
         returned[i] * cpu_stats.systemDelta
           = cpu_stats.cpuDelta * cpu_stats.online_cpus * 100 * 100
    /\ (cpu_stats.cpuDelta = 200 /\ cpu_stats.systemDelta = 1000 /\ cpu_stats.online_cpus = 4)
         => returned[i] = 80 * 100

\* C22: every returned usage is 0 when systemDelta <= 0; when systemDelta > 0
\* it is the multiple of 0.01 nearest to (cpuDelta / systemDelta) * cpus * 100
\* (a half going up), where cpus is online_cpus, or 1 when the engine reports
\* no online_cpus; for cpuDelta 200, systemDelta 1000 and 4 cpus it is 80.
C22_FormulaRoundedToHundredths ==
  \A i \in DOMAIN returned :
    LET cpus == IF cpu_stats.online_cpus = 0 THEN 1 ELSE cpu_stats.online_cpus
        exact == cpu_stats.cpuDelta * cpus * 100 * 100   \* times systemDelta
        d == cpu_stats.systemDelta
    IN /\ d <= 0 => returned[i] = 0
       /\ d > 0 => /\ 2 * returned[i] * d <= 2 * exact + d
                   /\ 2 * exact + d < 2 * (returned[i] + 1) * d
       /\ (cpu_stats.cpuDelta = 200 /\ d = 1000 /\ cpu_stats.online_cpus = 4)
            => returned[i] = 80 * 100

\* The sample of the statement has been computed.
C22_Witness ==
  /\ cpu_stats = [cpuDelta |-> 200, systemDelta |-> 1000, online_cpus |-> 4]
  /\ returned = <<80 * 100>>

\* ======================================================= path translation
\* A path is the sequence of its characters.

MaxSegments == 2       \* directories of the host path
MaxApplications == 2   \* applications of convertToDockerPath, each to the last result

Drives == {"C", "D"}
Names == {"a", "b", "c"}
Letters == {"C", "D", "a", "b", "c", "d"}

\* drive.toLowerCase()
toLowerCase(ch) == CASE ch = "C" -> "c" [] ch = "D" -> "d" [] OTHER -> ch

\* The match of /^([A-Za-z]):/
HasDrive(p) == Len(p) >= 2 /\ p[1] \in Letters /\ p[2] = ":"

IsSeparator(ch) == ch \in {"\\", "/"}

\* path.resolve on Windows, for a path with no '.', '..' or doubled
\* separators and a working directory that is the root of drive cwd: a path with
\* a drive keeps it, a path that begins with a separator gets the drive of
\* the working directory, and the separators become backslashes.
path_resolve(p, cwd) ==
  LET device == IF HasDrive(p) THEN SubSeq(p, 1, 2) ELSE <<cwd, ":">>
      tail == IF HasDrive(p) THEN SubSeq(p, 3, Len(p)) ELSE p
      rooted == IF tail # <<>> /\ IsSeparator(tail[1]) THEN tail ELSE <<"\\">> \o tail
  IN device \o [i \in DOMAIN rooted |->
                  IF IsSeparator(rooted[i]) THEN "\\" ELSE rooted[i]]

\* .replace(/^([A-Za-z]):/, (_, drive) => `/${drive.toLowerCase()}`)
replaceDrive(p) ==
  IF HasDrive(p) THEN <<"/", toLowerCase(p[1])>> \o SubSeq(p, 3, Len(p)) ELSE p

\* .replace(/\\/g, '/')
replaceBackslashes(p) == [i \in DOMAIN p |-> IF p[i] = "\\" THEN "/" ELSE p[i]]

convertToDockerPath(p, h) ==
  IF ~h.isWindows
  THEN p
  ELSE LET absolutePath == path_resolve(p, h.cwd)
       IN replaceBackslashes(replaceDrive(absolutePath))

\* The absolute paths of a host: C:\a\b on Windows, /a/b elsewhere.
RECURSIVE Under(_, _)
Under(separator, names) ==
  IF names = <<>> THEN <<>>
  ELSE <<separator, Head(names)>> \o Under(separator, Tail(names))

HostPaths(isWindows) ==
  LET names == UNION {[1..n -> Names] : n \in 1..MaxSegments} IN
    IF isWindows
    THEN {<<d, ":">> \o Under("\\", q) : d \in Drives, q \in names}
    ELSE {Under("/", q) : q \in names}

\* convertToDockerPath is applied to the host path, then to its own result.
convertToDockerPath_call ==
  /\ Len(converted) < MaxApplications
  /\ LET p == IF converted = <<>> THEN windowsPath ELSE converted[Len(converted)]
     IN converted' = Append(converted, convertToDockerPath(p, host))
  /\ UNCHANGED <<cpu_stats, returned, host, windowsPath>>
  /\ UNCHANGED <<vars, logVars, decodeVars, clientVars, statVars>>

\* ----------------------------------------------------------------- C23
\* C23: translating an absolute host path that has already been translated
\* gives the same path again (the translation never rejects a path, so the
\* second application always returns one), and the result depends on the
\* path and the kind of host only.
C23_TranslateIdempotent ==
  Len(converted) >= 2 => converted[2] = converted[1]

\* ======================================================= specifications
\* No lifecycle call is in progress.
NoCalls ==
  /\ pc = [c \in Calls |-> "idle"]
  /\ op = [c \in Calls |-> "none"]
  /\ last = [op |-> "none", id |-> 1, outcome |-> "none"]
  /\ id = [c \in Calls |-> 1]
  /\ bot = [c \in Calls |-> NoBot]
  /\ containerId = [c \in Calls |-> Null]
  /\ error = [c \in Calls |-> "none"]
  /\ invoked = 0
  /\ faults = 0
  /\ overlapped = FALSE

\* A socket is connected and has subscribed to nothing.
\* No log stream is being decoded.
NoDecode ==
  /\ chunks = <<>>
  /\ read = 0
  /\ delivered = <<>>

\* The Runtime Client has not been called on its own.
NoClient == calls = <<>>

\* The reconciler has not ticked.
NoStats == sweep = NoSweep /\ ticks = 0

NoCalc ==
  /\ cpu_stats = [cpuDelta |-> 0, systemDelta |-> 0, online_cpus |-> 0]
  /\ returned = <<>>
  /\ host = [isWindows |-> FALSE, cwd |-> "C"]
  /\ windowsPath = <<>>
  /\ converted = <<>>

NoLogs ==
  /\ streams = <<>>
  /\ activeSubscriptions = [sock \in Sockets |-> <<>>]
  /\ pending = [b \in BotIds |-> 0]
  /\ requests = 0

Init ==
  /\ bots = <<>>
  /\ nextBot = 0
  /\ history = [b \in BotIds |-> <<>>]
  /\ dirs = {}
  /\ containers = <<>>
  /\ nextCid = 0
  /\ image = FALSE
  /\ notifications = <<>>
  /\ NoCalls
  /\ NoLogs
  /\ NoDecode
  /\ NoClient
  /\ NoStats
  /\ NoCalc

Next ==
  \/ createBot
  \/ \E c \in Calls, ok \in BOOLEAN : startBot(c, ok)
  \/ \E c \in Calls, ok \in BOOLEAN : stopBot(c, ok)
  \/ \E c \in Calls, ok \in BOOLEAN : restartBot(c, ok)
  \/ \E c \in Calls, ok \in BOOLEAN : deleteBot(c, ok)

Spec == Init /\ [][Next]_<<vars, notLifecycle>>

\* The gateway and its log streams, over a bot that was created and never
\* started (no containerId) or was started once (RUNNING, container 1).
InitLogs ==
  /\ \E started \in BOOLEAN :
       /\ bots = [b \in BotIds |->
                    IF started
                    THEN [status |-> "RUNNING", containerId |-> 1,
                          lastStartedAt |-> TRUE, lastStoppedAt |-> FALSE]
                    ELSE NewBotRow]
       /\ history = [b \in BotIds |-> IF started THEN <<"RUNNING">> ELSE <<>>]
       /\ containers = IF started
                       THEN [x \in {1} |-> [name |-> 1, state |-> "running"]]
                       ELSE <<>>
       /\ nextCid = IF started THEN 1 ELSE 0
       /\ image = started
       /\ notifications = IF started
                          THEN <<<<"BOT_CREATED", 1>>, <<"BOT_STARTED", 1>>>>
                          ELSE <<<<"BOT_CREATED", 1>>>>
  /\ nextBot = 1
  /\ dirs = {1}
  /\ NoCalls
  /\ NoLogs
  /\ NoDecode
  /\ NoClient
  /\ NoStats
  /\ NoCalc

NextLogs ==
  \/ \E sock \in Sockets, b \in BotIds : subscribe_logs(sock, b)
  \/ \E sock \in Sockets, b \in BotIds, ok \in BOOLEAN :
       subscribe_findUnique(sock, b, ok)
  \/ \E sock \in Sockets, b \in BotIds : unsubscribe_logs(sock, b)
  \/ \E sock \in Sockets : disconnect(sock)
  \/ \E i \in DOMAIN streams, ok \in BOOLEAN : attach(i, ok)
  \/ \E i \in DOMAIN streams : data(i)
  \/ \E i \in DOMAIN streams : streamError(i)
  \/ \E i \in DOMAIN streams : end(i)
  \/ \E i \in DOMAIN streams : cancel(i)

SpecLogs == InitLogs /\ [][NextLogs]_<<logVars, notLogs>>

\* One log stream that emits up to MaxChunks of the sample chunks.
InitDecode ==
  /\ bots = <<>>
  /\ nextBot = 0
  /\ history = [b \in BotIds |-> <<>>]
  /\ dirs = {}
  /\ containers = <<>>
  /\ nextCid = 0
  /\ image = FALSE
  /\ notifications = <<>>
  /\ NoCalls
  /\ NoLogs
  /\ NoClient
  /\ NoStats
  /\ NoCalc
  /\ \E n \in 1..MaxChunks : chunks \in [1..n -> Chunks]
  /\ read = 0
  /\ delivered = <<>>

NextDecode == onData

SpecDecode == InitDecode /\ [][NextDecode]_<<decodeVars, notDecode>>

\* The Runtime Client over an engine that holds any containers: each absent,
\* created, running or exited.
InitClient ==
  /\ bots = <<>>
  /\ nextBot = 0
  /\ history = [b \in BotIds |-> <<>>]
  /\ dirs = {}
  /\ \E present \in SUBSET ContainerIds :
       \E state \in [present -> {"created", "running", "exited"}] :
         containers = [x \in present |-> [name |-> x, state |-> state[x]]]
  /\ nextCid = 2
  /\ image = TRUE
  /\ notifications = <<>>
  /\ NoCalls
  /\ NoLogs
  /\ NoDecode
  /\ NoClient
  /\ NoStats
  /\ NoCalc

NextClient ==
  \E fn \in ClientFunctions, cid \in ContainerIds, ok \in BOOLEAN :
    clientCall(fn, cid, ok)

SpecClient == InitClient /\ [][NextClient]_<<containers, calls, notClient>>

\* What lifecycle calls leave of a bot, by the calls it went through:
\* created; started; started, its container then removed from outside;
\* started and stopped; created, its start failed at the image pull.
BotKinds == {"fresh", "running", "orphaned", "stopped", "failed"}

KindRow(kind) ==
  [status |-> CASE kind \in {"running", "orphaned"} -> "RUNNING"
                [] kind = "failed" -> "ERROR"
                [] OTHER -> "STOPPED",
   hasContainer |-> kind \in {"running", "stopped"},
   state |-> IF kind = "running" THEN "running" ELSE "exited",
   started |-> kind \in {"running", "orphaned", "stopped"},
   history |-> CASE kind \in {"running", "orphaned"} -> <<"RUNNING">>
                 [] kind = "stopped" -> <<"RUNNING", "STOPPED">>
                 [] OTHER -> <<>>]

\* The reconciler over two bots of any kinds, no lifecycle call in progress.
InitStats ==
  /\ \E kind \in [SweepBots -> BotKinds] :
       /\ bots = [b \in SweepBots |->
                    [status |-> KindRow(kind[b]).status,
                     containerId |-> IF KindRow(kind[b]).started THEN b ELSE Null,
                     lastStartedAt |-> KindRow(kind[b]).started,
                     lastStoppedAt |-> kind[b] = "stopped"]]
       /\ history = [b \in SweepBots |-> KindRow(kind[b]).history]
       /\ containers =
            [b \in {x \in SweepBots : KindRow(kind[x]).hasContainer} |->
               [name |-> b, state |-> KindRow(kind[b]).state]]
       /\ image = \E b \in SweepBots : KindRow(kind[b]).started
  /\ nextBot = 2
  /\ dirs = SweepBots
  /\ nextCid = 2
  /\ notifications = <<>>
  /\ NoCalls
  /\ NoLogs
  /\ NoDecode
  /\ NoClient
  /\ NoStats
  /\ NoCalc

NextStats ==
  \/ statsInterval
  \/ \E ok \in BOOLEAN : recordBotStats_findMany(ok)
  \/ \E ok \in BOOLEAN : recordBotStats_getContainerStats(ok)
  \/ \E ok \in BOOLEAN : recordBotStats_create(ok)

SpecStats == InitStats /\ [][NextStats]_<<history, statVars, notStats>>
\* The reconciler while one handler serves stop and delete calls on bot 1,
\* which starts RUNNING with its container.
InitRace == InitStats /\ bots[1].status = "RUNNING" /\ ContainerExists(1)

NextRace ==
  \/ NextStats
  \/ \E ok \in BOOLEAN : stopBot(1, ok)
  \/ \E ok \in BOOLEAN : deleteBot(1, ok)

SpecRace == InitRace /\ [][NextRace]_<<vars, statVars, notLifecycle>>

\* getContainerStats on one sample of the engine.
InitCpu ==
  /\ cpu_stats \in [cpuDelta : CpuDeltas, systemDelta : SystemDeltas,
                online_cpus : OnlineCpus]
  /\ returned = <<>>
  /\ host = [isWindows |-> FALSE, cwd |-> "C"]
  /\ windowsPath = <<>>
  /\ converted = <<>>
  /\ bots = <<>>
  /\ nextBot = 0
  /\ history = [b \in BotIds |-> <<>>]
  /\ dirs = {}
  /\ containers = <<>>
  /\ nextCid = 0
  /\ image = FALSE
  /\ notifications = <<>>
  /\ NoCalls
  /\ NoLogs
  /\ NoDecode
  /\ NoClient
  /\ NoStats

NextCpu == getContainerStats_return

SpecCpu == InitCpu /\ [][NextCpu]_calcVars

\* convertToDockerPath on one absolute path of one host.
InitPath ==
  /\ host \in [isWindows : BOOLEAN, cwd : Drives]
  /\ windowsPath \in HostPaths(host.isWindows)
  /\ converted = <<>>
  /\ cpu_stats = [cpuDelta |-> 0, systemDelta |-> 0, online_cpus |-> 0]
  /\ returned = <<>>
  /\ bots = <<>>
  /\ nextBot = 0
  /\ history = [b \in BotIds |-> <<>>]
  /\ dirs = {}
  /\ containers = <<>>
  /\ nextCid = 0
  /\ image = FALSE
  /\ notifications = <<>>
  /\ NoCalls
  /\ NoLogs
  /\ NoDecode
  /\ NoClient
  /\ NoStats

NextPath == convertToDockerPath_call

SpecPath == InitPath /\ [][NextPath]_calcVars
====
